---- MODULE Spec2Model ----
(***************************************************************************)
(* My Focus front end (src/src/assets/js/app.js, tauri-api.js): the        *)
(* monitoring toggle with its start checks, the manual focus check and the *)
(* focus_state_changed handler, as one event-loop state machine.  Every    *)
(* `await` of a backend command is a suspension point: an action is the    *)
(* synchronous code that runs from one suspension point to the next.       *)
(***************************************************************************)
EXTENDS Integers, Sequences, FiniteSets, TLC

\* ------------------------------------------------------------------ bounds
\* concurrent invocations of toggleMonitoring (re-entry while suspended)
MaxToggles == 1
\* focus_state_changed events emitted by the backend and not yet handled
MaxEvents == 1
\* longest api_key / detection_model string drawn as an input
MaxStrLen == 1

\* trigger_monitoring_check commands in flight that the model can count
MaxInFlight == 2
\* task commands awaited at the same time
MaxPending == 1
\* minutes the wall clock runs
MaxTime == 1
\* distraction_intervention events delivered
MaxInterventions == 2
\* largest number of minutes entered in the timer settings
MaxMinutes == 1
\* setInterval timers the model can hold at once
MaxIntervals == 2
\* pending resume timeouts of pauseMonitoring the model can hold at once
MaxPauses == 2

Slots == 1..MaxToggles

\* ------------------------------------------------------------- JS values
\* the value of a property that an object does not have
Undefined == <<"undefined">>

\* a string is the sequence of its characters
Chars == {" ", "k"}

Strings == UNION {[1..n -> Chars] : n \in 0..MaxStrLen}

\* obj.field
Get(obj, field) == IF field \in DOMAIN obj THEN obj[field] ELSE Undefined

RECURSIVE TrimStart(_)
TrimStart(s) ==
    IF s # <<>> /\ Head(s) = " " THEN TrimStart(Tail(s)) ELSE s

RECURSIVE TrimEnd(_)
TrimEnd(s) ==
    IF s # <<>> /\ s[Len(s)] = " " THEN TrimEnd(SubSeq(s, 1, Len(s) - 1)) ELSE s

\* String.prototype.trim
Trim(s) == TrimEnd(TrimStart(s))

\* IsBlank without the trim: a whitespace-only value counts as set
IsBlank_noTrim(x) == x = Undefined \/ x = <<>>

\* !x || x.trim() === ''
IsBlank(x) == x = Undefined \/ x = <<>> \/ Trim(x) = <<>>

\* ---------------------------------------------------------- tauri-api.js
\* what handleApiError returns, and so what safeInvoke resolves to when the
\* backend command is rejected: safeInvoke never rejects
handleApiError == [success |-> FALSE, message |-> "error", response_time_ms |-> 0]

\* safeInvoke: the command's value, or handleApiError's object on rejection
safeInvoke(ok, value) == IF ok THEN value ELSE handleApiError

\* ------------------------------------------------- values of the backend
\* load_ai_config: any stored configuration, fields possibly absent
AIConfigValues ==
    {[api_key |-> k, detection_model |-> m] : k \in Strings, m \in Strings}
      \cup {[api_key |-> k] : k \in Strings}
      \cup {[detection_model |-> m] : m \in Strings}

\* load_user_settings
Lists == {<<>>, <<"app">>}

UserSettingsValues ==
    {[whitelist |-> w, blacklist |-> b] : w \in Lists, b \in Lists}
      \cup {[whitelist |-> w] : w \in Lists}

\* test_ai_api
TestResultValues == {[success |-> s, message |-> "m", response_time_ms |-> 1] : s \in BOOLEAN}

\* confidence of a classification, as a percentage
Confidences == {0, 100}

\* trigger_monitoring_check
MonitoringResultValues ==
    {[focus_state |-> f, confidence |-> c] :
        f \in {"Focused", "Distracted", "SeverelyDistracted", "Unknown", "Other"},
        c \in Confidences}
      \cup {[confidence |-> c] : c \in Confidences}

\* responses as the front end sees them through safeInvoke
AIConfigResponses == {safeInvoke(ok, v) : ok \in BOOLEAN, v \in AIConfigValues}

UserSettingsResponses == {safeInvoke(ok, v) : ok \in BOOLEAN, v \in UserSettingsValues}

TestResultResponses == {safeInvoke(ok, v) : ok \in BOOLEAN, v \in TestResultValues}

MonitoringResultResponses == {safeInvoke(ok, v) : ok \in BOOLEAN, v \in MonitoringResultValues}

\* payload of a focus_state_changed event
FocusPayloads ==
    {[state |-> s, confidence |-> c] :
        s \in {"idle", "focused", "distracted", "severely_distracted", "other"},
        c \in Confidences}
      \cup {[confidence |-> c] : c \in Confidences}

\* ------------------------------------------------------------------ state
VARIABLES
    isMonitoring,       \* app.js:9
    currentFocusState,  \* app.js:12
    toggle,             \* per invocation of toggleMonitoring: position and log
    checkBtnDisabled,   \* #manual-check-btn .disabled
    manualCheck,        \* triggerManualCheck: position, isMonitoring at issue, commands in flight
    backendRunning,     \* backend: monitoring loop started
    events,             \* focus_state_changed events emitted, not yet handled
    now,                \* minutes elapsed on the wall clock
    surfaced,           \* interventions shown by showDistractionIntervention, in order
    taskList,           \* #task-list: per task id, its element and checkbox
    created,            \* task ids the backend has assigned so far
    currentSelectedTask,\* app.js:13
    storedTask,         \* localStorage item 'currentSelectedTask'
    currentTaskText,    \* #current-task-text, the dashboard's current task
    currentTaskDisplay, \* #current-task-display, the timer panel's current task
    taskSelector,       \* #task-selector: its options and its value
    isProcessing,       \* selectCurrentTask.isProcessing
    modal,              \* #task-selection-modal: shown or hidden, and the tasks it lists
    pending,            \* task commands awaited by a handler
    effects,            \* what the last task handler wrote and notified
    loaded,             \* the DOMContentLoaded listener of app.js has run
    timerInterval,      \* initTimer: id returned by the last setInterval, or null
    intervals,          \* ids of the setInterval timers that are active
    currentTime,        \* initTimer: seconds left
    isRunning,          \* initTimer
    isPaused,           \* initTimer
    focusDuration,      \* initTimer: seconds of a focus period
    distractionModals,  \* the elements with id 'distraction-modal' in the document
    dismissTimers,      \* auto-close timeouts of showDistractionIntervention, pending
    fadeTimers,         \* removal timeouts of dismissDistractionModal, pending, oldest first
    startConfig,        \* per invocation of toggleMonitoring: aiConfig of saveMonitoringConfigForStart
    resumeTimers        \* number of pending 5-minute timeouts of pauseMonitoring

\* what showDistractionIntervention and the clock write
interventionVars == <<now, surfaced>>

\* what the task handlers write
taskVars == <<taskList, created, currentSelectedTask, storedTask, currentTaskText,
              currentTaskDisplay, taskSelector, isProcessing, modal, pending, effects>>

\* what the pomodoro timer writes
timerVars == <<timerInterval, intervals, currentTime, isRunning, isPaused, focusDuration>>

\* what the intervention modal and its timeouts write
modalVars == <<distractionModals, dismissTimers, fadeTimers>>

\* a local variable that holds no value yet
Unset == [unset |-> TRUE]

\* what the page's other handlers write
pageVars == <<loaded, timerVars, modalVars, startConfig, resumeTimers>>

vars == <<isMonitoring, currentFocusState, toggle,
          checkBtnDisabled, manualCheck, backendRunning, events, interventionVars,
          taskVars, pageVars>>

\* initTimer with no timerSettings in localStorage: 25 minutes, stopped
InitTimer ==
    /\ timerInterval = 0
    /\ intervals = {}
    /\ currentTime = 25 * 60
    /\ isRunning = FALSE
    /\ isPaused = FALSE
    /\ focusDuration = 25 * 60

\* no intervention has been shown
InitModal ==
    /\ distractionModals = {}
    /\ dismissTimers = {}
    /\ fadeTimers = <<>>

\* the rest of the page once the DOMContentLoaded listener has run
InitPage ==
    /\ loaded = TRUE
    /\ InitTimer
    /\ InitModal
    /\ startConfig = [a \in Slots |-> Unset]
    /\ resumeTimers = 0

\* ------------------------------------------------------------------ tasks
\* null, and the text '暂无任务' of a display that shows no task
Null == "null"

\* ids the backend assigns to saved tasks, in the order it assigns them
SavedIds == <<"a", "b">>

\* data-task-id of the elements of #task-list: createTaskElement falls back
\* to 'unknown' for an object without id.  A task's text is written as its id.
TaskIds == {SavedIds[i] : i \in DOMAIN SavedIds} \cup {"unknown"}

\* the task state before any task is loaded or selected
InitTasks ==
    /\ taskList = [id \in TaskIds |-> "absent"]
    /\ created = 0
    /\ currentSelectedTask = Null
    /\ storedTask = Null
    /\ currentTaskText = Null
    /\ currentTaskDisplay = Null
    /\ taskSelector = [options |-> {}, value |-> Null]
    /\ isProcessing = FALSE
    /\ modal = [open |-> FALSE, items |-> {}]
    /\ pending = {[op |-> "reload"]}
    /\ effects = {}

\* ------------------------------------------------------ updateFocusStatus
\* a string argument
Str(s) == [typeof |-> "string", value |-> s]

\* an object argument
Obj(o) == [typeof |-> "object", value |-> o]

\* updateFocusStatus that drops an event payload of confidence 0
updateFocusStatus_gated(payload, cur) ==
    IF payload.typeof = "string" THEN payload.value
    ELSE IF "state" \in DOMAIN payload.value /\ payload.value.confidence > 0
         THEN payload.value.state
         ELSE cur

\* currentFocusState after updateFocusStatus(payload): a payload without a
\* state returns before the assignment; what follows the assignment only
\* renders statusConfig[newState]
updateFocusStatus(payload, cur) ==
    LET hasState == payload.typeof = "string" \/ "state" \in DOMAIN payload.value
        newState == IF payload.typeof = "string" THEN payload.value
                    ELSE payload.value.state
    IN  IF ~hasState THEN cur ELSE newState

\* updateDashboardFocusState: the state handed to updateFocusStatus
focusStateMap ==
    [f \in {"Focused", "Distracted", "SeverelyDistracted", "Unknown"} |->
        CASE f = "Focused" -> "focused"
          [] f = "Distracted" -> "distracted"
          [] f = "SeverelyDistracted" -> "severely_distracted"
          [] f = "Unknown" -> "idle"]

mappedState(result) ==
    IF "focus_state" \in DOMAIN result /\ result.focus_state \in DOMAIN focusStateMap
    THEN focusStateMap[result.focus_state]
    ELSE "idle"

updateDashboardFocusState(result, cur) ==
    updateFocusStatus(Str(mappedState(result)), cur)

\* ------------------------------------------------------------------- Init
Init ==
    /\ isMonitoring = FALSE
    /\ currentFocusState = "idle"
    /\ toggle = [a \in Slots |-> [pc |-> "free", trace |-> <<>>]]
    /\ checkBtnDisabled = FALSE
    /\ manualCheck = [pc |-> "idle", issuedWhileMonitoring |-> FALSE, inFlight |-> 0]
    /\ backendRunning = FALSE
    /\ events = <<>>
    /\ now = 0
    /\ surfaced = <<>>
    /\ InitTasks
    /\ InitPage

\* ------------------------------------------------------- toggleMonitoring
InProgress(a) == toggle[a].pc \notin {"free", "done"}

Suspend(a, pc, log) ==
    toggle' = [toggle EXCEPT ![a] = [pc |-> pc, trace |-> toggle[a].trace \o log]]

\* the backend's start_monitoring: the loop runs once the command succeeded
backendStart(ok, running) == IF ok THEN TRUE ELSE running

\* the backend's stop_monitoring
backendStop(ok, running) == IF ok THEN FALSE ELSE running

\* the user activates the toggle: the code up to the first await
toggleMonitoring(a) ==
    /\ ~InProgress(a)
    /\ IF isMonitoring
       THEN toggle' = [toggle EXCEPT ![a] =
                [pc |-> "stopMonitoring", trace |-> <<"stop_monitoring">>]]
       ELSE toggle' = [toggle EXCEPT ![a] =
                [pc |-> "checkAIConfiguration",
                 trace |-> <<"checkAIConfiguration", "load_ai_config">>]]
    /\ UNCHANGED <<isMonitoring, currentFocusState,
                   checkBtnDisabled, manualCheck, backendRunning, events, interventionVars, taskVars, pageVars>>

\* toggleMonitoring_stopped without the updateFocusStatus('idle') call
toggleMonitoring_stopped_keepsState(a, ok) ==
    /\ toggle[a].pc = "stopMonitoring"
    /\ isMonitoring' = FALSE
    /\ Suspend(a, "done", <<"stopped">>)
    /\ backendRunning' = backendStop(ok, backendRunning)
    /\ UNCHANGED <<currentFocusState, checkBtnDisabled, manualCheck, events, interventionVars, taskVars, pageVars>>

\* toggleMonitoring_stopped that drops the task binding with the session
toggleMonitoring_stopped_clearsTask(a, ok) ==
    /\ toggle[a].pc = "stopMonitoring"
    /\ isMonitoring' = FALSE
    /\ currentFocusState' = updateFocusStatus(Str("idle"), currentFocusState)
    /\ Suspend(a, "done", <<"stopped">>)
    /\ backendRunning' = backendStop(ok, backendRunning)
    /\ currentSelectedTask' = "null"
    /\ storedTask' = "null"
    /\ UNCHANGED <<checkBtnDisabled, manualCheck, events, interventionVars,
                   taskList, created, currentTaskText, currentTaskDisplay,
                   taskSelector, isProcessing, modal, pending, effects, pageVars>>

\* await TauriAPI.stopMonitoring() resolves
toggleMonitoring_stopped(a, ok) ==
    /\ toggle[a].pc = "stopMonitoring"
    /\ isMonitoring' = FALSE
    /\ currentFocusState' = updateFocusStatus(Str("idle"), currentFocusState)
    /\ Suspend(a, "done", <<"stopped">>)
    /\ backendRunning' = backendStop(ok, backendRunning)
    /\ UNCHANGED <<checkBtnDisabled, manualCheck, events, interventionVars, taskVars, pageVars>>

\* checkAIConfiguration: which field is reported missing, or "ok"
checkAIConfiguration(aiConfig) ==
    IF IsBlank(Get(aiConfig, "api_key")) THEN "api_key"
    ELSE IF IsBlank(Get(aiConfig, "detection_model")) THEN "detection_model"
    ELSE "ok"

\* checkAIConfiguration_loaded whose verdict toggleMonitoring does not test:
\* the error is reported and the list check runs all the same
checkAIConfiguration_loaded_proceeds(a, aiConfig) ==
    /\ toggle[a].pc = "checkAIConfiguration"
    /\ Suspend(a, "checkWhiteBlacklistConfiguration",
               <<IF checkAIConfiguration(aiConfig) = "api_key" THEN "notify:api_key"
                 ELSE IF checkAIConfiguration(aiConfig) = "detection_model"
                      THEN "notify:detection_model"
                      ELSE "checkAIConfiguration:pass",
                 "checkWhiteBlacklistConfiguration", "load_user_settings">>)
    /\ UNCHANGED <<isMonitoring, currentFocusState,
                   checkBtnDisabled, manualCheck, backendRunning, events, interventionVars, taskVars, pageVars>>

\* checkAIConfiguration after await TauriAPI.loadAIConfig(); on true
\* toggleMonitoring goes on into checkWhiteBlacklistConfiguration
checkAIConfiguration_loaded(a, aiConfig) ==
    /\ toggle[a].pc = "checkAIConfiguration"
    /\ IF checkAIConfiguration(aiConfig) # "ok"
       THEN Suspend(a, "done", <<IF checkAIConfiguration(aiConfig) = "api_key"
                                 THEN "notify:api_key"
                                 ELSE "notify:detection_model">>)
       ELSE Suspend(a, "checkWhiteBlacklistConfiguration",
                    <<"checkAIConfiguration:pass",
                      "checkWhiteBlacklistConfiguration", "load_user_settings">>)
    /\ UNCHANGED <<isMonitoring, currentFocusState,
                   checkBtnDisabled, manualCheck, backendRunning, events, interventionVars, taskVars, pageVars>>

\* settings.whitelist && settings.whitelist.length > 0
hasList(settings, field) ==
    Get(settings, field) # Undefined /\ Len(Get(settings, field)) > 0

\* checkWhiteBlacklistConfiguration_loaded that does not look at confirm()'s answer
checkWhiteBlacklistConfiguration_loaded_ignoresConfirm(a, settings, confirmed) ==
    /\ toggle[a].pc = "checkWhiteBlacklistConfiguration"
    /\ Suspend(a, "testAPIConnectionForMonitoring",
               <<"checkWhiteBlacklistConfiguration:pass",
                 "testAPIConnectionForMonitoring", "load_ai_config">>)
    /\ UNCHANGED <<isMonitoring, currentFocusState,
                   checkBtnDisabled, manualCheck, backendRunning, events, interventionVars, taskVars, pageVars>>

\* checkWhiteBlacklistConfiguration after await TauriAPI.loadUserSettings();
\* confirmed is the answer to confirm(), asked only when both lists are empty
checkWhiteBlacklistConfiguration_loaded(a, settings, confirmed) ==
    /\ toggle[a].pc = "checkWhiteBlacklistConfiguration"
    /\ IF ~hasList(settings, "whitelist") /\ ~hasList(settings, "blacklist")
       THEN IF ~confirmed
            THEN Suspend(a, "done", <<"confirm:no">>)
            ELSE Suspend(a, "testAPIConnectionForMonitoring",
                         <<"checkWhiteBlacklistConfiguration:pass",
                           "testAPIConnectionForMonitoring", "load_ai_config">>)
       ELSE Suspend(a, "testAPIConnectionForMonitoring",
                    <<"checkWhiteBlacklistConfiguration:pass",
                      "testAPIConnectionForMonitoring", "load_ai_config">>)
    /\ UNCHANGED <<isMonitoring, currentFocusState,
                   checkBtnDisabled, manualCheck, backendRunning, events, interventionVars, taskVars, pageVars>>

\* testAPIConnectionForMonitoring after await TauriAPI.loadAIConfig()
testAPIConnectionForMonitoring_loaded(a, aiConfig) ==
    /\ toggle[a].pc = "testAPIConnectionForMonitoring"
    /\ Suspend(a, "testAIAPI", <<"test_ai_api">>)
    /\ UNCHANGED <<isMonitoring, currentFocusState,
                   checkBtnDisabled, manualCheck, backendRunning, events, interventionVars, taskVars, pageVars>>

\* testAPIConnectionForMonitoring after await TauriAPI.testAIAPI(aiConfig);
\* on true toggleMonitoring goes on into saveMonitoringConfigForStart
testAPIConnectionForMonitoring_tested(a, testResult) ==
    /\ toggle[a].pc = "testAIAPI"
    /\ IF ~testResult.success
       THEN Suspend(a, "done", <<"notify:api_unreachable">>)
       ELSE Suspend(a, "saveMonitoringConfigForStart",
                    <<"testAPIConnectionForMonitoring:pass",
                      "saveMonitoringConfigForStart", "load_ai_config">>)
    /\ UNCHANGED <<isMonitoring, currentFocusState,
                   checkBtnDisabled, manualCheck, backendRunning, events, interventionVars, taskVars, pageVars>>

\* load_ai_config at the time of the activate write: a complete
\* configuration, or one whose key the settings page has emptied meanwhile
StartAIConfigs ==
    {[api_key |-> <<"k">>, detection_model |-> <<"k">>],
     [api_key |-> <<>>, detection_model |-> <<"k">>]}

\* saveMonitoringConfigForStart after await TauriAPI.loadAIConfig(): the
\* value is kept in aiConfig
saveMonitoringConfigForStart_loadedAI(a, aiConfig) ==
    /\ toggle[a].pc = "saveMonitoringConfigForStart"
    /\ Suspend(a, "saveMonitoringConfigForStart_settings", <<"load_user_settings">>)
    /\ startConfig' = [startConfig EXCEPT ![a] = aiConfig]
    /\ UNCHANGED <<isMonitoring, currentFocusState,
                   checkBtnDisabled, manualCheck, backendRunning, events, interventionVars,
                   taskVars, loaded, timerVars, modalVars, resumeTimers>>

\* userSettings.whitelist || []
listOrEmpty(settings, field) ==
    IF Get(settings, field) = Undefined THEN <<>> ELSE Get(settings, field)

\* the monitoringConfig object that saveMonitoringConfigForStart builds;
\* interval_minutes, read from #monitoring-interval, is left out
monitoringConfig(aiConfig, userSettings) ==
    [enabled |-> TRUE,
     whitelist |-> listOrEmpty(userSettings, "whitelist"),
     blacklist |-> listOrEmpty(userSettings, "blacklist"),
     ai_config |-> aiConfig]

\* saveMonitoringConfigForStart that writes the configuration disabled
saveMonitoringConfigForStart_loadedSettings_disabled(a, userSettings) ==
    /\ toggle[a].pc = "saveMonitoringConfigForStart_settings"
    /\ Suspend(a, "saveMonitoringConfig", <<"save_monitoring_config:disabled">>)
    /\ startConfig' = [startConfig EXCEPT ![a] = Unset]
    /\ UNCHANGED <<isMonitoring, currentFocusState,
                   checkBtnDisabled, manualCheck, backendRunning, events, interventionVars,
                   taskVars, loaded, timerVars, modalVars, resumeTimers>>

\* saveMonitoringConfigForStart after await TauriAPI.loadUserSettings():
\* save_monitoring_config is issued with monitoringConfig
saveMonitoringConfigForStart_loadedSettings(a, userSettings) ==
    /\ toggle[a].pc = "saveMonitoringConfigForStart_settings"
    /\ Suspend(a, "saveMonitoringConfig",
               IF monitoringConfig(startConfig[a], userSettings).enabled
               THEN <<"save_monitoring_config">>
               ELSE <<"save_monitoring_config:disabled">>)
    /\ startConfig' = [startConfig EXCEPT ![a] = Unset]
    /\ UNCHANGED <<isMonitoring, currentFocusState,
                   checkBtnDisabled, manualCheck, backendRunning, events, interventionVars,
                   taskVars, loaded, timerVars, modalVars, resumeTimers>>

\* saveMonitoringConfigForStart after await TauriAPI.saveMonitoringConfig():
\* the resolved value is not looked at; toggleMonitoring issues start_monitoring
saveMonitoringConfigForStart_saved(a, ok) ==
    /\ toggle[a].pc = "saveMonitoringConfig"
    /\ Suspend(a, "startMonitoring",
               IF ok THEN <<"start_monitoring">>
               ELSE <<"save_monitoring_config:error", "start_monitoring">>)
    /\ UNCHANGED <<isMonitoring, currentFocusState,
                   checkBtnDisabled, manualCheck, backendRunning, events, interventionVars, taskVars, pageVars>>

\* await TauriAPI.startMonitoring() resolves: the resolved value is not looked at
toggleMonitoring_started(a, ok) ==
    /\ toggle[a].pc = "startMonitoring"
    /\ isMonitoring' = TRUE
    /\ currentFocusState' = updateFocusStatus(Str("focused"), currentFocusState)
    /\ Suspend(a, "done", <<"started">>)
    /\ backendRunning' = backendStart(ok, backendRunning)
    /\ UNCHANGED <<checkBtnDisabled, manualCheck, events, interventionVars, taskVars, pageVars>>

\* ----------------------------------------------------- triggerManualCheck
\* triggerManualCheck that leaves #manual-check-btn enabled while it waits
triggerManualCheck_keepsEnabled ==
    /\ ~checkBtnDisabled
    /\ manualCheck.inFlight < MaxInFlight
    /\ checkBtnDisabled' = FALSE
    /\ manualCheck' = [pc |-> "await", issuedWhileMonitoring |-> isMonitoring,
                       inFlight |-> manualCheck.inFlight + 1]
    /\ UNCHANGED <<isMonitoring, currentFocusState, toggle,
                   backendRunning, events, interventionVars, taskVars, pageVars>>

\* a click on #manual-check-btn: a disabled button dispatches no click; the
\* handler disables the button and issues trigger_monitoring_check
triggerManualCheck ==
    /\ ~checkBtnDisabled
    /\ manualCheck.inFlight < MaxInFlight
    /\ checkBtnDisabled' = TRUE
    /\ manualCheck' = [pc |-> "await", issuedWhileMonitoring |-> isMonitoring,
                       inFlight |-> manualCheck.inFlight + 1]
    /\ UNCHANGED <<isMonitoring, currentFocusState, toggle,
                   backendRunning, events, interventionVars, taskVars, pageVars>>

\* triggerManualCheck_resolved that re-enables the trigger only after a
\* command that succeeded
triggerManualCheck_resolved_noFinally(result) ==
    /\ manualCheck.pc = "await"
    /\ currentFocusState' = updateDashboardFocusState(result, currentFocusState)
    /\ checkBtnDisabled' = (result = handleApiError)
    /\ manualCheck' = [pc |-> IF manualCheck.inFlight > 1 THEN "await" ELSE "idle",
                       issuedWhileMonitoring |->
                           manualCheck.inFlight > 1 /\ manualCheck.issuedWhileMonitoring,
                       inFlight |-> manualCheck.inFlight - 1]
    /\ UNCHANGED <<isMonitoring, toggle, backendRunning, events, interventionVars, taskVars, pageVars>>

\* await TauriAPI.triggerMonitoringCheck() resolves, then the finally block
triggerManualCheck_resolved(result) ==
    /\ manualCheck.pc = "await"
    /\ currentFocusState' = updateDashboardFocusState(result, currentFocusState)
    /\ checkBtnDisabled' = FALSE
    /\ manualCheck' = [pc |-> IF manualCheck.inFlight > 1 THEN "await" ELSE "idle",
                       issuedWhileMonitoring |->
                           manualCheck.inFlight > 1 /\ manualCheck.issuedWhileMonitoring,
                       inFlight |-> manualCheck.inFlight - 1]
    /\ UNCHANGED <<isMonitoring, toggle, backendRunning, events, interventionVars, taskVars, pageVars>>

\* ---------------------------------------------------- focus_state_changed
\* the backend's monitoring loop finishes a check and emits the event
backendEmitFocusState ==
    /\ backendRunning
    /\ Len(events) < MaxEvents
    /\ events' = Append(events, "focus_state_changed")
    /\ UNCHANGED <<isMonitoring, currentFocusState, toggle,
                   checkBtnDisabled, manualCheck, backendRunning, interventionVars, taskVars, pageVars>>

\* the listener registered by initTauriEvents: updateFocusStatus(event.payload)
onFocusStateChanged(payload) ==
    /\ events # <<>>
    /\ events' = Tail(events)
    /\ currentFocusState' = updateFocusStatus(Obj(payload), currentFocusState)
    /\ UNCHANGED <<isMonitoring, toggle, checkBtnDisabled, manualCheck, backendRunning, interventionVars, taskVars, pageVars>>

\* ------------------------------------------------ distraction_intervention
\* minutes between two warnings: the default of #intervention-cooldown
cooldownMinutes == 5

\* payload of a distraction_intervention event: only 'encouragement' is
\* told apart by its type, the other kinds by urgent
InterventionPayloads ==
    {[type |-> t, urgent |-> u] :
        t \in {"encouragement", "light_distraction", "severe_distraction"},
        u \in BOOLEAN}

\* the webview's Notification: absent from window, or its permission
NotificationEnvs == {"unavailable", "granted", "default", "denied"}

\* showNotification: the in-page notification is always rendered; with
\* showSystemNotification the OS notification is shown when permission is
\* granted, and permission is asked for when it was not yet denied
showNotification(showSystemNotification, env) ==
    [inPage |-> TRUE,
     systemRequested |-> showSystemNotification,
     system |-> IF ~showSystemNotification THEN "none"
                ELSE CASE env = "unavailable" -> "unavailable"
                       [] env = "granted" -> "shown"
                       [] env = "default" -> "permission_asked"
                       [] env = "denied" -> "denied"]

\* showDistractionIntervention that lets urgent decide before the type
showDistractionIntervention_urgentFirst(payload, env) ==
    LET showSystemNotif == IF payload.urgent THEN TRUE
                           ELSE IF payload.type = "encouragement" THEN FALSE
                           ELSE TRUE
    IN  showNotification(showSystemNotif, env)

\* showDistractionIntervention up to its showNotification call: what is
\* rendered for the payload
showDistractionIntervention(payload, env) ==
    LET showSystemNotif == IF payload.type = "encouragement" THEN FALSE
                           ELSE IF payload.urgent THEN TRUE
                           ELSE TRUE
    IN  showNotification(showSystemNotif, env)

\* document.getElementById('distraction-modal'): the first such element
firstModal(modals) == CHOOSE m \in modals : \A o \in modals : m.n <= o.n

\* insertModal that leaves the existing modal in the document
insertModal_stacks(modals, n) ==
    modals \cup {[n |-> n, fading |-> FALSE]}

\* showDistractionIntervention, its modal: the existing element is removed
\* and the new one inserted; n numbers the elements in the order they are
\* made
insertModal(modals, n) ==
    (IF modals # {} THEN modals \ {firstModal(modals)} ELSE {})
        \cup {[n |-> n, fading |-> FALSE]}

\* (duration_seconds || 10): seconds until the auto-close timeout fires
dismissDelay(payload) ==
    IF "duration_seconds" \notin DOMAIN payload THEN 10
    ELSE IF payload.duration_seconds = 0 THEN 10
    ELSE payload.duration_seconds

\* the listener registered by initTauriEvents shows every event it is given:
\* the notification, the modal and its auto-close timeout
onDistractionIntervention(payload, env) ==
    /\ backendRunning
    /\ Len(surfaced) < MaxInterventions
    /\ surfaced' = Append(surfaced,
                      [type |-> payload.type, urgent |-> payload.urgent, at |-> now,
                       shown |-> showDistractionIntervention(payload, env)])
    /\ distractionModals' = insertModal(distractionModals, Len(surfaced) + 1)
    /\ dismissTimers' = dismissTimers \cup
                            {[n |-> Len(surfaced) + 1, after |-> dismissDelay(payload)]}
    /\ UNCHANGED <<isMonitoring, currentFocusState, toggle, checkBtnDisabled,
                   manualCheck, backendRunning, events, now, taskVars, loaded,
                   timerVars, fadeTimers, startConfig, resumeTimers>>

\* dismissDistractionModal: the first element with the id starts to fade
\* and a timeout is set that removes that element
dismissDistractionModal ==
    IF distractionModals = {}
    THEN UNCHANGED <<distractionModals, fadeTimers>>
    ELSE /\ distractionModals' =
                (distractionModals \ {firstModal(distractionModals)})
                    \cup {[firstModal(distractionModals) EXCEPT !.fading = TRUE]}
         /\ fadeTimers' = Append(fadeTimers, firstModal(distractionModals).n)

\* what the modal's timeouts leave alone
nonModalVars ==
    <<isMonitoring, currentFocusState, toggle, checkBtnDisabled, manualCheck,
      backendRunning, events, interventionVars, taskVars, loaded, timerVars,
      startConfig, resumeTimers>>

\* an auto-close timeout fires: timeouts fire in the order they fall due, so
\* not before one set earlier with a delay no longer than its own
onDismissTimer(t) ==
    /\ t \in dismissTimers
    /\ \A o \in dismissTimers : ~(o.n < t.n /\ o.after <= t.after)
    /\ dismissTimers' = dismissTimers \ {t}
    /\ dismissDistractionModal
    /\ UNCHANGED nonModalVars

\* the 300 ms timeout of dismissDistractionModal fires: modal.remove() on
\* the element it was set for
onFadeTimer ==
    /\ fadeTimers # <<>>
    /\ fadeTimers' = Tail(fadeTimers)
    /\ distractionModals' = {m \in distractionModals : m.n # Head(fadeTimers)}
    /\ UNCHANGED <<dismissTimers, nonModalVars>>

\* a minute passes
tick ==
    /\ now < MaxTime
    /\ now' = now + 1
    /\ UNCHANGED <<isMonitoring, currentFocusState, toggle, checkBtnDisabled,
                   manualCheck, backendRunning, events, surfaced, taskVars, pageVars>>

Next ==
    \/ \E a \in Slots : toggleMonitoring(a)
    \/ \E a \in Slots, ok \in BOOLEAN : toggleMonitoring_stopped(a, ok)
    \/ \E a \in Slots, aiConfig \in AIConfigResponses : checkAIConfiguration_loaded(a, aiConfig)
    \/ \E a \in Slots, settings \in UserSettingsResponses, confirmed \in BOOLEAN :
          checkWhiteBlacklistConfiguration_loaded(a, settings, confirmed)
    \/ \E a \in Slots, aiConfig \in AIConfigResponses :
          testAPIConnectionForMonitoring_loaded(a, aiConfig)
    \/ \E a \in Slots, testResult \in TestResultResponses :
          testAPIConnectionForMonitoring_tested(a, testResult)
    \/ \E a \in Slots, aiConfig \in StartAIConfigs :
          saveMonitoringConfigForStart_loadedAI(a, aiConfig)
    \/ \E a \in Slots, userSettings \in UserSettingsResponses :
          saveMonitoringConfigForStart_loadedSettings(a, userSettings)
    \/ \E a \in Slots, ok \in BOOLEAN : saveMonitoringConfigForStart_saved(a, ok)
    \/ \E a \in Slots, ok \in BOOLEAN : toggleMonitoring_started(a, ok)
    \/ triggerManualCheck
    \/ \E result \in MonitoringResultResponses : triggerManualCheck_resolved(result)
    \/ backendEmitFocusState
    \/ \E payload \in FocusPayloads : onFocusStateChanged(payload)

Spec == Init /\ [][Next]_vars

\* the backend answers every trigger_monitoring_check, so the promise that
\* triggerManualCheck awaits settles
SpecFair ==
    Spec /\ WF_vars(\E result \in MonitoringResultResponses :
                        triggerManualCheck_resolved(result))

\* ---------------------------------------------------------- task handlers
\* the task state a handler starts from; fx collects what it writes to
\* localStorage and what it notifies
TaskState ==
    [list |-> taskList, cur |-> currentSelectedTask, stored |-> storedTask,
     dash |-> currentTaskText, timer |-> currentTaskDisplay, sel |-> taskSelector,
     modal |-> modal, fx |-> {}]

\* the task state a handler leaves
SetTaskState(s) ==
    /\ taskList' = s.list
    /\ currentSelectedTask' = s.cur
    /\ storedTask' = s.stored
    /\ currentTaskText' = s.dash
    /\ currentTaskDisplay' = s.timer
    /\ taskSelector' = s.sel
    /\ modal' = s.modal
    /\ effects' = s.fx

\* what no task handler writes
nonTaskVars ==
    <<isMonitoring, currentFocusState, toggle, checkBtnDisabled, manualCheck,
      backendRunning, events, interventionVars, pageVars>>

\* the element of the task is in #task-list
Listed(list, id) == list[id] \in {"open", "done"}

\* updateCurrentTaskDisplay(taskText): with a text and a bound task whose
\* element is missing or checked, the binding and its stored copy are
\* dropped and 'no task' is shown
updateCurrentTaskDisplay(s, taskText) ==
    IF taskText # Null /\ s.cur # Null /\ s.list[s.cur] # "open"
    THEN [s EXCEPT !.cur = Null, !.stored = Null, !.dash = Null,
                   !.fx = @ \cup {"removeItem"}]
    ELSE [s EXCEPT !.dash = taskText]

\* updateTimerCurrentTask(taskText)
updateTimerCurrentTask(s, taskText) == [s EXCEPT !.timer = taskText]

\* the modal when hidden
Hidden == [open |-> FALSE, items |-> {}]

\* closeTaskSelector
closeTaskSelector(s) == [s EXCEPT !.modal = Hidden]

\* clearCurrentTask
clearCurrentTask(s) ==
    LET s1 == updateCurrentTaskDisplay([s EXCEPT !.cur = Null], Null)
        s2 == [s1 EXCEPT !.stored = Null, !.fx = @ \cup {"removeItem"}]
        s3 == closeTaskSelector(updateTimerCurrentTask(s2, Null))
    IN  [s3 EXCEPT !.fx = @ \cup {"notify:cleared"}]

\* selectCurrentTask whose guard is already taken: the call is skipped
selectCurrentTask_skipped(s) == [s EXCEPT !.fx = @ \cup {"skip"}]

\* selectCurrentTask past its guard: the body of the try block
selectCurrentTask(s, taskId, taskText) ==
    LET s1 == updateCurrentTaskDisplay([s EXCEPT !.cur = taskId], taskText)
        s2 == [s1 EXCEPT !.stored = taskId, !.fx = @ \cup {"setItem"}]
        s3 == closeTaskSelector(updateTimerCurrentTask(s2, taskText))
    IN  [s3 EXCEPT !.fx = @ \cup {"notify:selected"}]

\* updateSelectedTask(taskId): the timer panel shows the option's text
updateSelectedTask(s, taskId) ==
    IF taskId # Null
    THEN IF taskId \in s.sel.options THEN [s EXCEPT !.timer = taskId] ELSE s
    ELSE [s EXCEPT !.timer = Null]

\* updateTaskSelector: the options are rebuilt from the unchecked tasks, which
\* resets the value; with no option left the timer panel shows 'no task'
updateTaskSelector(s) ==
    LET options == {id \in TaskIds : s.list[id] = "open"}
        s1 == [s EXCEPT !.sel = [options |-> options, value |-> Null]]
    IN  IF options = {} THEN updateSelectedTask(s1, Null) ELSE s1

\* validateCurrentTask
validateCurrentTask(s) ==
    IF s.sel.value # Null
    THEN IF ~Listed(s.list, s.sel.value)
         THEN LET s1 == updateSelectedTask([s EXCEPT !.sel.value = Null], Null)
                  s2 == updateTimerCurrentTask(updateCurrentTaskDisplay(s1, Null), Null)
              IN  [s2 EXCEPT !.fx = @ \cup {"notify:cleared"}]
         ELSE s
    ELSE updateTimerCurrentTask(updateCurrentTaskDisplay(s, Null), Null)

\* a handler reaches an await of a task command
Await(op) ==
    /\ Cardinality(pending) < MaxPending
    /\ op \notin pending
    /\ pending' = pending \cup {op}

\* the awaited command settles
Settle(op) ==
    /\ op \in pending
    /\ pending' = pending \ {op}

\* addNewTask up to await TauriAPI.saveTask: the input holds a text
addNewTask ==
    /\ Await([op |-> "add"])
    /\ SetTaskState(TaskState)
    /\ UNCHANGED <<created, isProcessing, nonTaskVars>>

\* save_task as the front end sees it: the saved task, or safeInvoke's
\* error object
SaveTaskResponses ==
    {handleApiError} \cup
    (IF created < Len(SavedIds)
     THEN {[id |-> SavedIds[created + 1], completed |-> FALSE]}
     ELSE {})

\* createTaskElement(task): the id of the element and its checkbox
createTaskElement(task) ==
    [id |-> IF "id" \in DOMAIN task THEN task.id ELSE "unknown",
     state |-> IF "completed" \in DOMAIN task /\ task.completed THEN "done" ELSE "open"]

\* addNewTask after the await: the element is appended, then
\* updateTaskSelector and validateCurrentTask
addNewTask_saved(newTask) ==
    /\ Settle([op |-> "add"])
    /\ LET taskItem == createTaskElement(newTask)
           s1 == [TaskState EXCEPT
                     !.list[taskItem.id] = IF @ \in {"open", "done"} THEN @
                                           ELSE taskItem.state,
                     !.fx = @ \cup {"notify:added"}]
       IN  SetTaskState(validateCurrentTask(updateTaskSelector(s1)))
    /\ created' = IF "id" \in DOMAIN newTask THEN created + 1 ELSE created
    /\ UNCHANGED <<isProcessing, nonTaskVars>>

\* the user ticks or unticks the checkbox of a task: the change listener of
\* createTaskElement, up to await TauriAPI.updateTaskStatus
onTaskCheckboxChange(id) ==
    /\ Listed(taskList, id)
    /\ LET checked == taskList[id] = "open"
       IN  /\ Await([op |-> "status", id |-> id, checked |-> checked])
           /\ SetTaskState([TaskState EXCEPT
                               !.list[id] = IF checked THEN "done" ELSE "open"])
    /\ UNCHANGED <<created, isProcessing, nonTaskVars>>

\* the change listener after the await, whether the command succeeded (ok)
\* or safeInvoke resolved to the error object: updateTaskSelector, then
\* clearCurrentTask when the checkbox is checked and its task is the bound
\* one.  e.target.checked is the checkbox as it is now; for an element no
\* longer in the list, as it was when ticked.  The element 'unknown' was
\* made from an object without id: task.id is undefined and equals no
\* binding.
onTaskCheckboxChange_updated(id, checked, ok) ==
    /\ Settle([op |-> "status", id |-> id, checked |-> checked])
    /\ LET s1 == updateTaskSelector(TaskState)
           targetChecked == IF Listed(taskList, id) THEN taskList[id] = "done"
                            ELSE checked
       IN  SetTaskState(IF targetChecked /\ id # "unknown" /\ s1.cur = id
                        THEN clearCurrentTask(s1)
                        ELSE s1)
    /\ UNCHANGED <<created, isProcessing, nonTaskVars>>

\* the delete button of a task: deleteTask up to await TauriAPI.deleteTask;
\* for the element 'unknown' task.id is undefined and deleteTask returns at
\* once
deleteTask(taskId) ==
    /\ Listed(taskList, taskId)
    /\ taskId # "unknown"
    /\ Await([op |-> "delete", id |-> taskId])
    /\ SetTaskState(TaskState)
    /\ UNCHANGED <<created, isProcessing, nonTaskVars>>

\* deleteTask after the await, whether the command succeeded (ok) or
\* safeInvoke resolved to the error object: the element is removed, the
\* binding cleared when it was this task, the selector rebuilt
deleteTask_deleted(taskId, ok) ==
    /\ Settle([op |-> "delete", id |-> taskId])
    /\ LET s1 == [TaskState EXCEPT !.list[taskId] = "absent"]
           s2 == IF s1.cur = taskId THEN clearCurrentTask(s1) ELSE s1
           s3 == updateTaskSelector(s2)
       IN  SetTaskState([s3 EXCEPT !.fx = @ \cup {"notify:deleted"}])
    /\ UNCHANGED <<created, isProcessing, nonTaskVars>>

\* updateDashboardWithRealData up to await TauriAPI.getTasks: run at startup
\* and whenever the dashboard tab is shown
updateDashboardWithRealData ==
    /\ Await([op |-> "reload"])
    /\ SetTaskState(TaskState)
    /\ UNCHANGED <<created, isProcessing, nonTaskVars>>

\* get_tasks as the front end sees it: safeInvoke's error object, which is
\* no array, or an array of so many tasks
GetTasksResponses ==
    {[isArray |-> FALSE, length |-> 0],
     [isArray |-> TRUE, length |-> 0],
     [isArray |-> TRUE, length |-> 1]}

\* updateTasksList(tasks): every task element is removed; for a non-empty
\* array the first createTaskElement(task) throws a ReferenceError, the
\* function being local to initTasks, so nothing is appended and
\* updateTaskSelector is not reached; the callers catch the error
updateTasksList(s, tasks) ==
    IF ~tasks.isArray THEN s
    ELSE LET s1 == [s EXCEPT !.list = [id \in TaskIds |-> "absent"]]
         IN  IF tasks.length > 0 THEN s1 ELSE updateTaskSelector(s1)

\* updateDashboardWithRealData and loadTasks after the await
updateDashboardWithRealData_loaded(tasks) ==
    /\ Settle([op |-> "reload"])
    /\ SetTaskState(updateTasksList(TaskState, tasks))
    /\ UNCHANGED <<created, isProcessing, nonTaskVars>>

\* onPageSwitch, case timer: updateTaskSelector
onPageSwitch_timer ==
    /\ SetTaskState(updateTaskSelector(TaskState))
    /\ UNCHANGED <<created, isProcessing, pending, nonTaskVars>>

\* the user changes #task-selector: updateSelectedTask(this.value)
onTaskSelectorChange(value) ==
    /\ value \in taskSelector.options \cup {Null}
    /\ value # taskSelector.value
    /\ SetTaskState(updateSelectedTask([TaskState EXCEPT !.sel.value = value], value))
    /\ UNCHANGED <<created, isProcessing, pending, nonTaskVars>>

\* openTaskSelector: the modal lists the unchecked tasks of #task-list
openTaskSelector ==
    /\ ~modal.open
    /\ SetTaskState([TaskState EXCEPT
                        !.modal = [open |-> TRUE,
                                   items |-> {id \in TaskIds : taskList[id] = "open"}]])
    /\ UNCHANGED <<created, isProcessing, pending, nonTaskVars>>

\* Escape, or a click outside the modal
onModalDismiss ==
    /\ modal.open
    /\ SetTaskState(closeTaskSelector(TaskState))
    /\ UNCHANGED <<created, isProcessing, pending, nonTaskVars>>

\* a click on a task of the modal: selectCurrentTask(taskId, its label),
\* skipped while isProcessing is set
onModalTaskClick(taskId) ==
    /\ modal.open
    /\ taskId \in modal.items
    /\ IF isProcessing
       THEN /\ SetTaskState(selectCurrentTask_skipped(TaskState))
            /\ UNCHANGED isProcessing
       ELSE /\ SetTaskState(selectCurrentTask(TaskState, taskId, taskId))
            /\ isProcessing' = TRUE
    /\ UNCHANGED <<created, pending, nonTaskVars>>

\* the timeout set by selectCurrentTask's finally block fires
selectCurrentTask_release ==
    /\ isProcessing
    /\ isProcessing' = FALSE
    /\ SetTaskState(TaskState)
    /\ UNCHANGED <<created, pending, nonTaskVars>>

\* the modal's clear button: clearCurrentTask()
onClearCurrentTask ==
    /\ modal.open
    /\ SetTaskState(clearCurrentTask(TaskState))
    /\ UNCHANGED <<created, isProcessing, pending, nonTaskVars>>

\* the task handlers, from the state the page starts in
NextTasks ==
    \/ addNewTask
    \/ \E newTask \in SaveTaskResponses : addNewTask_saved(newTask)
    \/ \E id \in TaskIds : onTaskCheckboxChange(id)
    \/ \E id \in TaskIds, checked \in BOOLEAN, ok \in BOOLEAN :
          onTaskCheckboxChange_updated(id, checked, ok)
    \/ \E taskId \in TaskIds : deleteTask(taskId)
    \/ \E taskId \in TaskIds, ok \in BOOLEAN : deleteTask_deleted(taskId, ok)
    \/ updateDashboardWithRealData
    \/ \E tasks \in GetTasksResponses : updateDashboardWithRealData_loaded(tasks)
    \/ onPageSwitch_timer
    \/ \E value \in TaskIds \cup {Null} : onTaskSelectorChange(value)
    \/ openTaskSelector
    \/ onModalDismiss
    \/ \E taskId \in TaskIds : onModalTaskClick(taskId)
    \/ selectCurrentTask_release
    \/ onClearCurrentTask

SpecTasks == Init /\ [][NextTasks]_vars


\* a task has been added and selected, and selectCurrentTask's guard released
InitBound ==
    /\ isMonitoring = FALSE
    /\ currentFocusState = "idle"
    /\ toggle = [a \in Slots |-> [pc |-> "free", trace |-> <<>>]]
    /\ checkBtnDisabled = FALSE
    /\ manualCheck = [pc |-> "idle", issuedWhileMonitoring |-> FALSE, inFlight |-> 0]
    /\ backendRunning = FALSE
    /\ events = <<>>
    /\ now = 0
    /\ surfaced = <<>>
    /\ taskList = [id \in TaskIds |-> IF id = SavedIds[1] THEN "open" ELSE "absent"]
    /\ created = 1
    /\ currentSelectedTask = SavedIds[1]
    /\ storedTask = SavedIds[1]
    /\ currentTaskText = SavedIds[1]
    /\ currentTaskDisplay = SavedIds[1]
    /\ taskSelector = [options |-> {SavedIds[1]}, value |-> Null]
    /\ isProcessing = FALSE
    /\ modal = Hidden
    /\ pending = {}
    /\ effects = {}
    /\ InitPage

\* the monitoring toggle, with the binding selected, cleared and reselected
\* in between
NextBinding ==
    \/ \E a \in Slots : toggleMonitoring(a)
    \/ \E a \in Slots, ok \in BOOLEAN : toggleMonitoring_stopped(a, ok)
    \/ \E a \in Slots, aiConfig \in AIConfigResponses : checkAIConfiguration_loaded(a, aiConfig)
    \/ \E a \in Slots, settings \in UserSettingsResponses, confirmed \in BOOLEAN :
          checkWhiteBlacklistConfiguration_loaded(a, settings, confirmed)
    \/ \E a \in Slots, aiConfig \in AIConfigResponses :
          testAPIConnectionForMonitoring_loaded(a, aiConfig)
    \/ \E a \in Slots, testResult \in TestResultResponses :
          testAPIConnectionForMonitoring_tested(a, testResult)
    \/ \E a \in Slots, aiConfig \in StartAIConfigs :
          saveMonitoringConfigForStart_loadedAI(a, aiConfig)
    \/ \E a \in Slots, userSettings \in UserSettingsResponses :
          saveMonitoringConfigForStart_loadedSettings(a, userSettings)
    \/ \E a \in Slots, ok \in BOOLEAN : saveMonitoringConfigForStart_saved(a, ok)
    \/ \E a \in Slots, ok \in BOOLEAN : toggleMonitoring_started(a, ok)
    \/ openTaskSelector
    \/ \E taskId \in TaskIds : onModalTaskClick(taskId)
    \/ selectCurrentTask_release
    \/ onClearCurrentTask

SpecBinding == InitBound /\ [][NextBinding]_vars

\* ------------------------------------------------------------ page startup
\* loadCurrentTask: a stored selection is taken as the binding and shown
loadCurrentTask(s) ==
    IF s.stored # Null
    THEN updateTimerCurrentTask(
             updateCurrentTaskDisplay([s EXCEPT !.cur = s.stored], s.stored), s.stored)
    ELSE s

\* the page before its DOMContentLoaded listener runs: an earlier session
\* saved the task SavedIds[1] and selected it, so localStorage holds the
\* selection; #task-list has no element of a saved task yet
InitStartup ==
    /\ isMonitoring = FALSE
    /\ currentFocusState = "idle"
    /\ toggle = [a \in Slots |-> [pc |-> "free", trace |-> <<>>]]
    /\ checkBtnDisabled = FALSE
    /\ manualCheck = [pc |-> "idle", issuedWhileMonitoring |-> FALSE, inFlight |-> 0]
    /\ backendRunning = FALSE
    /\ events = <<>>
    /\ now = 0
    /\ surfaced = <<>>
    /\ taskList = [id \in TaskIds |-> "absent"]
    /\ created = 1
    /\ currentSelectedTask = Null
    /\ storedTask = SavedIds[1]
    /\ currentTaskText = Null
    /\ currentTaskDisplay = Null
    /\ taskSelector = [options |-> {}, value |-> Null]
    /\ isProcessing = FALSE
    /\ modal = Hidden
    /\ pending = {}
    /\ effects = {}
    /\ loaded = FALSE
    /\ InitTimer
    /\ InitModal
    /\ startConfig = [a \in Slots |-> Unset]
    /\ resumeTimers = 0

\* the DOMContentLoaded listener: initTasks starts loadTasks, which awaits
\* get_tasks, and runs updateTaskSelector; initDashboardControls runs
\* updateCurrentTaskDisplay() and loadCurrentTask()
DOMContentLoaded ==
    /\ ~loaded
    /\ loaded' = TRUE
    /\ pending' = {[op |-> "reload"]}
    /\ SetTaskState(loadCurrentTask(
                        updateCurrentTaskDisplay(updateTaskSelector(TaskState), Null)))
    /\ UNCHANGED <<created, isProcessing, isMonitoring, currentFocusState, toggle,
                   checkBtnDisabled, manualCheck, backendRunning, events,
                   interventionVars, timerVars, modalVars, startConfig, resumeTimers>>

\* get_tasks while the saved task exists: the array that holds it, or
\* safeInvoke's error object
StartupTasksResponses ==
    {[isArray |-> FALSE, length |-> 0], [isArray |-> TRUE, length |-> 1]}

\* startup: the listener, the task loads of loadTasks and of initApp, and
\* the monitoring toggle, which the user may use meanwhile
NextStartup ==
    \/ DOMContentLoaded
    \/ loaded /\ updateDashboardWithRealData
    \/ loaded /\ \E tasks \in StartupTasksResponses : updateDashboardWithRealData_loaded(tasks)
    \/ loaded /\ \E a \in Slots : toggleMonitoring(a)
    \/ \E a \in Slots, ok \in BOOLEAN : toggleMonitoring_stopped(a, ok)
    \/ \E a \in Slots, aiConfig \in AIConfigResponses : checkAIConfiguration_loaded(a, aiConfig)
    \/ \E a \in Slots, settings \in UserSettingsResponses, confirmed \in BOOLEAN :
          checkWhiteBlacklistConfiguration_loaded(a, settings, confirmed)
    \/ \E a \in Slots, aiConfig \in AIConfigResponses :
          testAPIConnectionForMonitoring_loaded(a, aiConfig)
    \/ \E a \in Slots, testResult \in TestResultResponses :
          testAPIConnectionForMonitoring_tested(a, testResult)
    \/ \E a \in Slots, aiConfig \in StartAIConfigs :
          saveMonitoringConfigForStart_loadedAI(a, aiConfig)
    \/ \E a \in Slots, userSettings \in UserSettingsResponses :
          saveMonitoringConfigForStart_loadedSettings(a, userSettings)
    \/ \E a \in Slots, ok \in BOOLEAN : saveMonitoringConfigForStart_saved(a, ok)
    \/ \E a \in Slots, ok \in BOOLEAN : toggleMonitoring_started(a, ok)

SpecStartup == InitStartup /\ [][NextStartup]_vars

\* ---------------------------------------------------------- pomodoro timer
\* what the timer's handlers leave alone
nonTimerVars ==
    <<isMonitoring, currentFocusState, toggle, checkBtnDisabled, manualCheck,
      backendRunning, events, interventionVars, taskVars, loaded, modalVars,
      startConfig, resumeTimers>>

\* setInterval: an id that no active timer has
setInterval == CHOOSE id \in 1..MaxIntervals : id \notin intervals

\* clearInterval(timerInterval): the timer of that id, if active, is stopped
clearInterval(id) == intervals \ {id}

\* startTimer
startTimer ==
    /\ Cardinality(intervals) < MaxIntervals
    /\ timerInterval' = setInterval
    /\ intervals' = intervals \cup {setInterval}
    /\ isRunning' = TRUE
    /\ isPaused' = FALSE
    /\ UNCHANGED <<currentTime, focusDuration>>

\* pauseTimer that leaves the interval ticking
pauseTimer_keepsInterval ==
    /\ isRunning' = FALSE
    /\ isPaused' = TRUE
    /\ UNCHANGED <<intervals, timerInterval, currentTime, focusDuration>>

\* pauseTimer
pauseTimer ==
    /\ intervals' = clearInterval(timerInterval)
    /\ isRunning' = FALSE
    /\ isPaused' = TRUE
    /\ UNCHANGED <<timerInterval, currentTime, focusDuration>>

\* resumeTimer
resumeTimer == startTimer

\* a click on #timer-main-btn: toggleTimer
toggleTimer ==
    /\ IF ~isRunning /\ ~isPaused THEN startTimer
       ELSE IF isRunning THEN pauseTimer
       ELSE IF isPaused THEN resumeTimer
       ELSE UNCHANGED timerVars
    /\ UNCHANGED nonTimerVars

\* a click on #timer-reset-btn: resetTimer
resetTimer ==
    /\ intervals' = clearInterval(timerInterval)
    /\ currentTime' = focusDuration
    /\ isRunning' = FALSE
    /\ isPaused' = FALSE
    /\ UNCHANGED <<timerInterval, focusDuration, nonTimerVars>>

\* a click on #timer-stop-btn: stopTimer
stopTimer ==
    /\ intervals' = clearInterval(timerInterval)
    /\ currentTime' = focusDuration
    /\ isRunning' = FALSE
    /\ isPaused' = FALSE
    /\ UNCHANGED <<timerInterval, focusDuration, nonTimerVars>>

\* parseInt of a settings input: NaN, or an integer
ParsedMinutes ==
    {[nan |-> TRUE, value |-> 0]} \cup {[nan |-> FALSE, value |-> v] : v \in -1..MaxMinutes}

\* parseInt(input.value) * 60 > 0: NaN compares false
positiveSeconds(m) == ~m.nan /\ m.value * 60 > 0

\* a click on #apply-timer-settings: applySettings with the three inputs
\* parsed; shortBreakDuration and longBreakDuration are written and never
\* read
applySettings(focus, shortBreak, longBreak) ==
    /\ IF positiveSeconds(focus) /\ positiveSeconds(shortBreak) /\ positiveSeconds(longBreak)
       THEN /\ focusDuration' = focus.value * 60
            /\ currentTime' = IF ~isRunning /\ ~isPaused THEN focus.value * 60
                              ELSE currentTime
       ELSE UNCHANGED <<focusDuration, currentTime>>
    /\ UNCHANGED <<timerInterval, intervals, isRunning, isPaused, nonTimerVars>>

\* the callback of the setInterval timer id fires, a second after the last
\* time: at zero the timer clears timerInterval and is set back to a full
\* focus period
onTimerInterval(id) ==
    /\ id \in intervals
    /\ IF currentTime - 1 <= 0
       THEN /\ intervals' = clearInterval(timerInterval)
            /\ isRunning' = FALSE
            /\ isPaused' = FALSE
            /\ currentTime' = focusDuration
       ELSE /\ currentTime' = currentTime - 1
            /\ UNCHANGED <<intervals, isRunning, isPaused>>
    /\ UNCHANGED <<timerInterval, focusDuration, nonTimerVars>>

NextTimer ==
    \/ toggleTimer
    \/ resetTimer
    \/ stopTimer
    \/ \E focus \in ParsedMinutes, shortBreak \in ParsedMinutes, longBreak \in ParsedMinutes :
          applySettings(focus, shortBreak, longBreak)
    \/ \E id \in 1..MaxIntervals : onTimerInterval(id)

SpecTimer == Init /\ [][NextTimer]_vars

\* ------------------------------------------ pause and re-entry of the toggle
\* the steps of toggleMonitoring for the invocations in S
toggleSteps(S) ==
    \/ \E a \in S : toggleMonitoring(a)
    \/ \E a \in S, ok \in BOOLEAN : toggleMonitoring_stopped(a, ok)
    \/ \E a \in S, aiConfig \in AIConfigResponses : checkAIConfiguration_loaded(a, aiConfig)
    \/ \E a \in S, settings \in UserSettingsResponses, confirmed \in BOOLEAN :
          checkWhiteBlacklistConfiguration_loaded(a, settings, confirmed)
    \/ \E a \in S, aiConfig \in AIConfigResponses :
          testAPIConnectionForMonitoring_loaded(a, aiConfig)
    \/ \E a \in S, testResult \in TestResultResponses :
          testAPIConnectionForMonitoring_tested(a, testResult)
    \/ \E a \in S, aiConfig \in StartAIConfigs :
          saveMonitoringConfigForStart_loadedAI(a, aiConfig)
    \/ \E a \in S, userSettings \in UserSettingsResponses :
          saveMonitoringConfigForStart_loadedSettings(a, userSettings)
    \/ \E a \in S, ok \in BOOLEAN : saveMonitoringConfigForStart_saved(a, ok)
    \/ \E a \in S, ok \in BOOLEAN : toggleMonitoring_started(a, ok)

\* pauseMonitoring, the second button of a severe intervention's modal:
\* stop_monitoring is awaited, then the 5-minute timeout is started; the
\* command never rejects, so the timeout is started whatever the outcome
pauseMonitoring(ok) ==
    /\ resumeTimers < MaxPauses
    /\ backendRunning' = backendStop(ok, backendRunning)
    /\ resumeTimers' = resumeTimers + 1
    /\ UNCHANGED <<isMonitoring, currentFocusState, toggle, checkBtnDisabled,
                   manualCheck, events, interventionVars, taskVars, loaded,
                   timerVars, modalVars, startConfig>>

\* the timeout of pauseMonitoring fires: start_monitoring
onResumeTimer(ok) ==
    /\ resumeTimers > 0
    /\ backendRunning' = backendStart(ok, backendRunning)
    /\ resumeTimers' = resumeTimers - 1
    /\ UNCHANGED <<isMonitoring, currentFocusState, toggle, checkBtnDisabled,
                   manualCheck, events, interventionVars, taskVars, loaded,
                   timerVars, modalVars, startConfig>>

\* invocations of toggleMonitoring that can be suspended at the same time
ReentrySlots == 1..(MaxToggles + 1)

InitReentry ==
    /\ isMonitoring = FALSE
    /\ currentFocusState = "idle"
    /\ toggle = [a \in ReentrySlots |-> [pc |-> "free", trace |-> <<>>]]
    /\ checkBtnDisabled = FALSE
    /\ manualCheck = [pc |-> "idle", issuedWhileMonitoring |-> FALSE, inFlight |-> 0]
    /\ backendRunning = FALSE
    /\ events = <<>>
    /\ now = 0
    /\ surfaced = <<>>
    /\ InitTasks
    /\ loaded = TRUE
    /\ InitTimer
    /\ InitModal
    /\ startConfig = [a \in ReentrySlots |-> Unset]
    /\ resumeTimers = 0

NextReentry == toggleSteps(ReentrySlots)

SpecReentry == InitReentry /\ [][NextReentry]_vars

\* the log of a toggle that started monitoring with every check passed
startedTrace ==
    <<"checkAIConfiguration", "load_ai_config", "checkAIConfiguration:pass",
      "checkWhiteBlacklistConfiguration", "load_user_settings",
      "checkWhiteBlacklistConfiguration:pass",
      "testAPIConnectionForMonitoring", "load_ai_config", "test_ai_api",
      "testAPIConnectionForMonitoring:pass",
      "saveMonitoringConfigForStart", "load_ai_config", "load_user_settings",
      "save_monitoring_config", "start_monitoring", "started">>

\* the state right after toggleMonitoring has started a session
InitMonitoring ==
    /\ isMonitoring = TRUE
    /\ currentFocusState = "focused"
    /\ toggle = [a \in Slots |->
                   IF a = 1 THEN [pc |-> "done", trace |-> startedTrace]
                   ELSE [pc |-> "free", trace |-> <<>>]]
    /\ checkBtnDisabled = FALSE
    /\ manualCheck = [pc |-> "idle", issuedWhileMonitoring |-> FALSE, inFlight |-> 0]
    /\ backendRunning = TRUE
    /\ events = <<>>
    /\ now = 0
    /\ surfaced = <<>>
    /\ InitTasks
    /\ InitPage

NextPause ==
    \/ toggleSteps(Slots)
    \/ \E ok \in BOOLEAN : pauseMonitoring(ok)
    \/ \E ok \in BOOLEAN : onResumeTimer(ok)

\* a running session in which the modal's pause button is used
SpecPause == InitMonitoring /\ [][NextPause]_vars

\* a running session: interventions arrive while the clock runs
NextIntervention ==
    \/ \E payload \in InterventionPayloads, env \in NotificationEnvs :
          onDistractionIntervention(payload, env)
    \/ tick

SpecIntervention == InitMonitoring /\ [][NextIntervention]_vars

\* payloads with and without duration_seconds
ModalPayloads ==
    InterventionPayloads \cup
    {[type |-> p.type, urgent |-> p.urgent, duration_seconds |-> d] :
        p \in InterventionPayloads, d \in {0, 5}}

\* interventions arrive while monitoring runs, and the modal's timeouts fire
NextModal ==
    \/ \E payload \in ModalPayloads : onDistractionIntervention(payload, "granted")
    \/ \E t \in dismissTimers : onDismissTimer(t)
    \/ onFadeTimer

SpecModal == InitMonitoring /\ [][NextModal]_vars

\* ------------------------------------------------------ reading the traces
Has(t, e) == \E i \in DOMAIN t : t[i] = e

Last(t) == IF t = <<>> THEN "" ELSE t[Len(t)]

\* every occurrence of e2 in t has an e1 before it
Precedes(t, e1, e2) ==
    \A j \in DOMAIN t : t[j] = e2 => \E i \in 1..(j - 1) : t[i] = e1

\* a missing, empty or whitespace-only field of a loaded configuration
BlankField(cfg, f) ==
    f \notin DOMAIN cfg \/ \A i \in DOMAIN cfg[f] : cfg[f][i] = " "

\* both lists of the loaded settings are empty (or not there)
BothListsEmpty(st) ==
    /\ ("whitelist" \notin DOMAIN st \/ st.whitelist = <<>>)
    /\ ("blacklist" \notin DOMAIN st \/ st.blacklist = <<>>)

\* commands and checks that only a later stage of the start path issues
AfterListCheck ==
    {"testAPIConnectionForMonitoring", "test_ai_api", "saveMonitoringConfigForStart",
     "save_monitoring_config", "start_monitoring", "started"}

AfterAICheck ==
    AfterListCheck \cup {"checkWhiteBlacklistConfiguration", "load_user_settings"}

\* ------------------------------------------------------------------ claims
\* C1: in a start attempt the AI-credential check, the list check and the
\* connectivity check run in this order, each only after the earlier ones of
\* the same attempt passed; save_monitoring_config and start_monitoring are
\* issued only after all three passed, and isMonitoring turns true only in
\* the step that ends such an attempt.
C1_ChecksInOrder ==
    /\ [](\A a \in Slots :
            LET t == toggle[a].trace IN
            /\ Precedes(t, "checkAIConfiguration", "checkAIConfiguration:pass")
            /\ Precedes(t, "checkAIConfiguration:pass", "checkWhiteBlacklistConfiguration")
            /\ Precedes(t, "checkWhiteBlacklistConfiguration",
                           "checkWhiteBlacklistConfiguration:pass")
            /\ Precedes(t, "checkWhiteBlacklistConfiguration:pass",
                           "testAPIConnectionForMonitoring")
            /\ Precedes(t, "testAPIConnectionForMonitoring", "test_ai_api")
            /\ Precedes(t, "test_ai_api", "testAPIConnectionForMonitoring:pass")
            /\ Precedes(t, "testAPIConnectionForMonitoring:pass", "save_monitoring_config")
            /\ Precedes(t, "save_monitoring_config", "start_monitoring")
            /\ Precedes(t, "start_monitoring", "started")
            /\ ~Has(t, "notify:api_key") \/ ~Has(t, "checkAIConfiguration:pass")
            /\ ~Has(t, "notify:detection_model") \/ ~Has(t, "checkAIConfiguration:pass"))
    /\ [][(~isMonitoring /\ isMonitoring') =>
            \E a \in Slots :
                /\ toggle[a].pc = "startMonitoring"
                /\ toggle'[a].pc = "done"
                /\ Has(toggle'[a].trace, "checkAIConfiguration:pass")
                /\ Has(toggle'[a].trace, "checkWhiteBlacklistConfiguration:pass")
                /\ Has(toggle'[a].trace, "testAPIConnectionForMonitoring:pass")
                /\ Has(toggle'[a].trace, "start_monitoring")]_vars

\* C1 witness: an attempt passed the three checks, issued start_monitoring
\* and turned isMonitoring on
C1_Witness ==
    \E a \in Slots :
        /\ toggle[a].pc = "done"
        /\ Last(toggle[a].trace) = "started"
        /\ isMonitoring

\* C2: when the AI configuration loaded by the credential check has a blank
\* api_key or detection_model, the attempt ends there: nothing later in the
\* start path is issued, isMonitoring and the focus state are left as they
\* were, and api_key is the field reported when both are blank.
C2_BlankCredentialsBlockStart ==
    [][\A a \in Slots :
         /\ (~isMonitoring /\ toggleMonitoring(a)) =>
                (isMonitoring' = isMonitoring /\ currentFocusState' = currentFocusState)
         /\ (toggle[a].pc = "checkAIConfiguration" /\ toggle'[a] # toggle[a]) =>
              \A cfg \in AIConfigResponses :
                (/\ BlankField(cfg, "api_key") \/ BlankField(cfg, "detection_model")
                 /\ checkAIConfiguration_loaded(a, cfg))
                => /\ toggle'[a].pc = "done"
                   /\ Last(toggle'[a].trace) =
                        IF BlankField(cfg, "api_key") THEN "notify:api_key"
                        ELSE "notify:detection_model"
                   /\ \A e \in AfterAICheck : ~Has(toggle'[a].trace, e)
                   /\ isMonitoring' = isMonitoring
                   /\ currentFocusState' = currentFocusState
                   /\ backendRunning' = backendRunning]_vars

\* C2 witness: an attempt ended on a blank api_key right after the load,
\* with monitoring off and the state idle
C2_Witness ==
    /\ \E a \in Slots :
         /\ toggle[a].pc = "done"
         /\ toggle[a].trace = <<"checkAIConfiguration", "load_ai_config", "notify:api_key">>
    /\ ~isMonitoring
    /\ currentFocusState = "idle"

\* C3: when the settings read by the list check have both lists empty, the
\* attempt goes on to the connectivity check exactly when the user confirms;
\* on a decline it ends with no connectivity test, no activate write and no
\* start_monitoring, and isMonitoring and the focus state are left alone.
C3_EmptyListsNeedConfirmation ==
    [][\A a \in Slots :
         (toggle[a].pc = "checkWhiteBlacklistConfiguration" /\ toggle'[a] # toggle[a]) =>
           \A st \in UserSettingsResponses, confirmed \in BOOLEAN :
             (checkWhiteBlacklistConfiguration_loaded(a, st, confirmed) /\ BothListsEmpty(st))
             => IF confirmed
                THEN toggle'[a].pc = "testAPIConnectionForMonitoring"
                ELSE /\ toggle'[a].pc = "done"
                     /\ Last(toggle'[a].trace) = "confirm:no"
                     /\ \A e \in AfterListCheck : ~Has(toggle'[a].trace, e)
                     /\ isMonitoring' = isMonitoring
                     /\ currentFocusState' = currentFocusState
                     /\ backendRunning' = backendRunning]_vars

\* C3 witness: an attempt ended on the user's decline, monitoring still off
C3_Witness ==
    \E a \in Slots :
        /\ toggle[a].pc = "done"
        /\ Last(toggle[a].trace) = "confirm:no"
        /\ ~isMonitoring

\* C4: a start attempt whose activate write or whose start_monitoring command
\* failed completes with isMonitoring false and the focus state idle.
C4_FailedStartStaysStopped ==
    [][\A a \in Slots :
         (toggle[a].pc = "startMonitoring" /\ toggle'[a] # toggle[a]) =>
           \A ok \in BOOLEAN :
             (/\ toggleMonitoring_started(a, ok)
              /\ ~ok \/ Has(toggle[a].trace, "save_monitoring_config:error"))
             => (isMonitoring' = FALSE /\ currentFocusState' = "idle")]_vars

\* C5: a toggle invoked while monitoring completes with isMonitoring false
\* and the focus state idle, whatever the state was before.
C5_StopResetsToIdle ==
    [][\A a \in Slots :
         (toggle[a].pc = "stopMonitoring" /\ toggle'[a].pc = "done")
         => (isMonitoring' = FALSE /\ currentFocusState' = "idle")]_vars

\* C5 witness: a stop has completed and left monitoring off and the state idle
C5_Witness ==
    \E a \in Slots :
        /\ toggle[a].pc = "done"
        /\ toggle[a].trace = <<"stop_monitoring", "stopped">>
        /\ ~isMonitoring
        /\ currentFocusState = "idle"

\* C6: with no toggle in progress, monitoring off implies the focus state is idle.
C6_NonIdleOnlyWhileMonitoring ==
    ((\A a \in Slots : ~InProgress(a)) /\ ~isMonitoring) => currentFocusState = "idle"

\* C7: the result of a manual check issued while monitoring and arriving
\* after monitoring was stopped leaves the focus state idle and unchanged.
C7_StaleResultDiscarded ==
    [][(/\ manualCheck.pc = "await"
        /\ manualCheck.issuedWhileMonitoring
        /\ ~isMonitoring
        /\ manualCheck'.pc = "idle")
       => (currentFocusState' = currentFocusState /\ currentFocusState' = "idle")]_vars

\* C8: a manual check whose trigger_monitoring_check command failed, or
\* whose result names no focus state, leaves the focus state as it was.
C8_FailedCheckKeepsState ==
    [][(manualCheck.pc = "await" /\ manualCheck'.pc = "idle") =>
         \A r \in MonitoringResultResponses :
           (/\ triggerManualCheck_resolved(r)
            /\ r = handleApiError \/ "focus_state" \notin DOMAIN r)
           => currentFocusState' = currentFocusState]_vars

\* the state a successful classification names
ResultState(r) ==
    CASE r.focus_state = "Focused" -> "focused"
      [] r.focus_state = "Distracted" -> "distracted"
      [] r.focus_state = "SeverelyDistracted" -> "severely_distracted"

\* C9: after a focus_state_changed payload that carries a state, or a manual
\* check result that names Focused, Distracted or SeverelyDistracted, is
\* applied, the focus state is the state of that result, for either confidence.
C9_LastResultWins ==
    [][/\ (events # <<>> /\ events' # events) =>
            \A p \in FocusPayloads :
              (onFocusStateChanged(p) /\ "state" \in DOMAIN p)
              => currentFocusState' = p.state
       /\ (manualCheck.pc = "await" /\ manualCheck'.pc = "idle") =>
            \A r \in MonitoringResultValues :
              (/\ triggerManualCheck_resolved(r)
               /\ "focus_state" \in DOMAIN r
               /\ r.focus_state \in {"Focused", "Distracted", "SeverelyDistracted"})
              => currentFocusState' = ResultState(r)]_vars

\* C9 witness: a result naming severe distraction has been applied
C9_Witness == currentFocusState = "severely_distracted" /\ isMonitoring

\* C10: no manual check result handled while monitoring is on moves a
\* non-idle focus state to idle.
C10_IdleOnlyOnStop ==
    [][(manualCheck.pc = "await" /\ manualCheck'.pc = "idle") =>
         \A r \in MonitoringResultResponses :
           (/\ triggerManualCheck_resolved(r)
            /\ isMonitoring
            /\ currentFocusState # "idle")
           => currentFocusState' # "idle"]_vars

\* C11: in every reachable state the focus state is one of idle, focused,
\* distracted, severely_distracted, whatever payload updateFocusStatus was
\* given and whatever result updateDashboardFocusState was given.
C11_FocusStateClosed ==
    currentFocusState \in {"idle", "focused", "distracted", "severely_distracted"}

C13_CheckAlwaysReturns ==
    /\ checkBtnDisabled ~> ~checkBtnDisabled
    /\ [][manualCheck' # manualCheck => isMonitoring' = isMonitoring]_vars

\* C13 witness: a check issued with monitoring never started has completed
\* (only its result can have named the state) and the trigger is enabled
\* again, monitoring still off
C13_Witness ==
    /\ manualCheck.pc = "idle"
    /\ ~checkBtnDisabled
    /\ \A a \in Slots : toggle[a].pc = "free"
    /\ currentFocusState = "severely_distracted"
    /\ ~isMonitoring

\* a warning: an intervention of either distraction kind
IsWarning(i) == i.type # "encouragement"

\* C14: no two warnings are shown within cooldownMinutes of each other,
\* however many distraction_intervention events arrive in that window.
C14_WarningsRespectCooldown ==
    \A i, j \in DOMAIN surfaced :
        (i < j /\ IsWarning(surfaced[i]) /\ IsWarning(surfaced[j]))
        => surfaced[j].at - surfaced[i].at >= cooldownMinutes

\* C20: every intervention shown has its in-page notification rendered;
\* the OS notification is requested for every intervention of a distraction
\* kind, urgent or not, and for no encouragement, urgent or not.
C20_SystemNotificationOnlyForWarnings ==
    \A i \in DOMAIN surfaced :
        /\ surfaced[i].shown.inPage
        /\ surfaced[i].shown.systemRequested = IsWarning(surfaced[i])
        /\ IsWarning(surfaced[i]) <=> surfaced[i].shown.system # "none"

\* C20 witness: an urgent encouragement shown in the page only, and a
\* distraction that is not urgent shown as an OS notification too
C20_Witness ==
    \E i, j \in DOMAIN surfaced :
        /\ surfaced[i].type = "encouragement"
        /\ surfaced[i].urgent
        /\ surfaced[i].shown.system = "none"
        /\ surfaced[j].type = "light_distraction"
        /\ ~surfaced[j].urgent
        /\ surfaced[j].shown.system = "shown"

\* a handler has completed: the command it awaited has settled
TaskCommandSettled == pending' # pending /\ pending' \subseteq pending

\* C15: apart from the explicit clear, a step clears the binding only if the
\* bound task is then missing from the list or checked, and every handler
\* that completes a change of the list (add, complete, delete, reload) and
\* leaves the bound task missing or checked clears the binding.
C15_ClearedExactlyWhenStale ==
    [][/\ (/\ currentSelectedTask # Null
           /\ currentSelectedTask' = Null
           /\ ~onClearCurrentTask)
          => taskList'[currentSelectedTask] # "open"
       /\ (/\ TaskCommandSettled
           /\ currentSelectedTask # Null
           /\ taskList'[currentSelectedTask] # "open")
          => currentSelectedTask' = Null]_vars

\* C16: whenever no task handler is waiting for a command, the dashboard's
\* current-task display and the timer panel's both show the bound task's
\* text, or 'no task' when nothing is bound.
C16_MirrorsAgree ==
    pending = {} =>
        /\ currentTaskText = currentSelectedTask
        /\ currentTaskDisplay = currentSelectedTask

\* C17: when selectCurrentTask is called for a task B, listed and
\* unchecked, while the guard taken by the call for another task A is still
\* set, the binding afterwards is B and the stored selection is B.
C17_LastSelectionWins ==
    [][(modal.open /\ isProcessing /\ currentSelectedTask # Null) =>
         \A taskId \in TaskIds :
           (/\ onModalTaskClick(taskId)
            /\ taskId # currentSelectedTask
            /\ taskList[taskId] = "open")
           => (currentSelectedTask' = taskId /\ storedTask' = taskId)]_vars

\* C18: selecting the task that is already bound leaves the binding and the
\* stored selection as they are and produces no write of the stored
\* selection and no 'task selected' notification.
C18_ReselectIsNoOp ==
    [][(modal.open /\ currentSelectedTask # Null) =>
         \A taskId \in TaskIds :
           (onModalTaskClick(taskId) /\ taskId = currentSelectedTask)
           => /\ currentSelectedTask' = currentSelectedTask
              /\ storedTask' = storedTask
              /\ "setItem" \notin effects'
              /\ "notify:selected" \notin effects']_vars

\* C19: no step of toggleMonitoring, on any of its paths, changes
\* currentSelectedTask or its stored copy.
C19_ToggleKeepsBinding ==
    [][toggle' # toggle =>
         /\ currentSelectedTask' = currentSelectedTask
         /\ storedTask' = storedTask]_vars

\* C19 witness: monitoring was started and stopped again, and the task is
\* still bound and stored
C19_Witness ==
    /\ \E a \in Slots :
         toggle[a].pc = "done" /\ toggle[a].trace = <<"stop_monitoring", "stopped">>
    /\ ~isMonitoring
    /\ currentSelectedTask = SavedIds[1]
    /\ storedTask = SavedIds[1]

\* C27: whenever no task handler is waiting for a command, localStorage
\* holds a 'currentSelectedTask' entry exactly when a task is bound, and
\* then the entry of the bound task; also after selectCurrentTask was called
\* for a task that is missing from the list or checked.
C27_StoredMatchesBinding ==
    pending = {} => storedTask = currentSelectedTask

\* C28: a task command that failed leaves the task list and the binding as
\* they were before the operation: a failed save_task adds no element, a
\* failed delete_task removes none and keeps the binding, a failed
\* update_task_status puts the checkbox back and keeps the binding.
C28_FailedCommandChangesNothing ==
    [][pending # {} =>
         /\ addNewTask_saved(handleApiError)
            => (taskList' = taskList /\ currentSelectedTask' = currentSelectedTask)
         /\ \A taskId \in TaskIds :
              deleteTask_deleted(taskId, FALSE)
              => (taskList' = taskList /\ currentSelectedTask' = currentSelectedTask)
         /\ \A id \in TaskIds, checked \in BOOLEAN :
              (onTaskCheckboxChange_updated(id, checked, FALSE) /\ Listed(taskList, id))
              => /\ taskList'[id] = (IF checked THEN "open" ELSE "done")
                 /\ currentSelectedTask' = currentSelectedTask]_vars

\* C29: once the DOMContentLoaded listener has run and the task loads it
\* started have settled, a selection stored by an earlier session for a task
\* that still exists and is not completed is the binding again, and its
\* stored entry is still there.
C29_StoredSelectionRestored ==
    (loaded /\ pending = {}) =>
        /\ currentSelectedTask = SavedIds[1]
        /\ storedTask = SavedIds[1]

\* C30: under any sequence of main-button, reset, stop, apply-settings and
\* tick events a setInterval timer is active exactly when isRunning, at
\* most one is active, isRunning and isPaused are never both true, and the
\* seconds left never go below zero.
C30_TimerConsistent ==
    /\ (intervals # {}) <=> isRunning
    /\ Cardinality(intervals) <= 1
    /\ ~(isRunning /\ isPaused)
    /\ currentTime >= 0

\* C30 witness: the timer was started, ticked, and is paused with a focus
\* period applied meanwhile; no interval is active
C30_Witness ==
    /\ isPaused
    /\ ~isRunning
    /\ intervals = {}
    /\ timerInterval # 0
    /\ currentTime < 25 * 60
    /\ currentTime > focusDuration

\* C21: at most one distraction-intervention modal is in the document, and
\* delivering an event while one is displayed leaves only the new one.
C21_ModalReplaces ==
    /\ [](Cardinality(distractionModals) <= 1)
    /\ [][surfaced' # surfaced =>
            distractionModals' = {[n |-> Len(surfaced'), fading |-> FALSE]}]_vars

\* C21 witness: the second event arrived while the modal of the first was
\* displayed (its auto-close timeout is still pending) and only the second
\* modal is displayed
C21_Witness ==
    /\ Len(surfaced) = 2
    /\ \E t \in dismissTimers : t.n = 1
    /\ distractionModals = {[n |-> 2, fading |-> FALSE]}

\* C22: a displayed modal stops being displayed only when a newer event
\* replaces it or when the auto-close timeout started for it fires, after
\* its own duration_seconds (10 when unset); the timeout started for a
\* replaced modal leaves the modal that replaced it alone.
C22_OwnTimerDismisses ==
    [][\A m \in distractionModals :
         (~m.fading /\ m \notin distractionModals')
         => \/ surfaced' # surfaced
            \/ \E t \in dismissTimers : t.n = m.n /\ t \notin dismissTimers']_vars

\* C23: the AI configuration written by save_monitoring_config is one that
\* passes the credential check of the start attempt.
C23_WrittenConfigPassedChecks ==
    [][\A a \in Slots :
         (toggle[a].pc = "saveMonitoringConfigForStart_settings"
          /\ toggle'[a].pc = "saveMonitoringConfig")
         => checkAIConfiguration(startConfig[a]) = "ok"]_vars

\* the number of entries e in the log t
Count(t, e) == Cardinality({i \in DOMAIN t : t[i] = e})

\* the log entries of a failed check
CheckFailures == {"notify:api_key", "notify:detection_model", "confirm:no",
                  "notify:api_unreachable"}

\* C24: an attempt that issued start_monitoring issued save_monitoring_config
\* (enabled = true) exactly once, and before it; an attempt in which a check
\* failed issued no save_monitoring_config.
C24_OneActivateWriteBeforeStart ==
    \A a \in Slots :
        LET t == toggle[a].trace IN
        /\ Has(t, "start_monitoring") =>
              /\ Count(t, "save_monitoring_config") = 1
              /\ Precedes(t, "save_monitoring_config", "start_monitoring")
        /\ (\E e \in CheckFailures : Has(t, e)) =>
              /\ ~Has(t, "save_monitoring_config")
              /\ ~Has(t, "save_monitoring_config:disabled")
              /\ ~Has(t, "start_monitoring")

\* C24 witness: start_monitoring has just been issued, after the one write
C24_Witness ==
    \E a \in Slots :
        /\ toggle[a].pc = "startMonitoring"
        /\ Last(toggle[a].trace) = "start_monitoring"
        /\ Count(toggle[a].trace, "save_monitoring_config") = 1

\* C25: whenever no toggle is in progress, the backend's monitoring loop
\* runs if and only if isMonitoring is true.
C25_FlagAgreesWithBackend ==
    (\A a \in Slots : ~InProgress(a)) => (backendRunning <=> isMonitoring)

\* C26: two invocations of toggleMonitoring are never in the start sequence
\* at the same time, and start_monitoring is issued only while monitoring is
\* off and no other invocation has a start_monitoring outstanding.
C26_NoConcurrentStart ==
    /\ [](\A a, b \in ReentrySlots :
            (a # b /\ InProgress(a) /\ InProgress(b))
            => "stop_monitoring" \in {Head(toggle[a].trace), Head(toggle[b].trace)})
    /\ [][\A a \in ReentrySlots :
            (toggle[a].pc # "startMonitoring" /\ toggle'[a].pc = "startMonitoring")
            => /\ ~isMonitoring
               /\ \A b \in ReentrySlots : toggle[b].pc # "startMonitoring"]_vars
====
